---- MODULE Spec2Model ----
(***************************************************************************)
(* Model of the peephole mutator's data-flow front end of wasm-mutate:     *)
(*   - DFGIcator::get_bb_from_operator  (basic block delimiter)            *)
(*   - DFGIcator::get_dfg, push_node, pop_operand  (DFG builder)           *)
(*   - MiniDFG::is_subtree_consistent   (colour consistency check)         *)
(* Source: crates/wasm-mutate/src/mutators/peephole/dfg/mod.rs             *)
(*                                                                         *)
(* Indices are kept 0-based as in the Rust code; a Rust vector v is a TLA+ *)
(* sequence and v[i] is read with At(v, i).                                *)
(***************************************************************************)
EXTENDS Integers, Sequences, FiniteSets, TLC

\* Longest operator stream drawn as an input.
MaxLen == 3

At(v, i) == v[i + 1]
SetAt(v, i, x) == [v EXCEPT ![i + 1] = x]
Indices(v) == 0 .. (Len(v) - 1)

(***************************************************************************)
(* Operators (wasmparser::Operator).  An operator is a record              *)
(* [op |-> kind, arg |-> immediate]; arg is the function/local/global      *)
(* index or the constant, and 0 for operators whose immediates the         *)
(* analysis never reads.                                                   *)
(***************************************************************************)
Op(kind, arg) == [op |-> kind, arg |-> arg]

\* The operators matched by the first arm of get_bb_from_operator's loop.
JumpKinds_NoBrTable ==
    {"If", "Else", "End", "Block", "Loop", "Br", "BrIf", "Return", "Unreachable"}

JumpKinds ==
    {"If", "Else", "End", "Block", "Loop", "Br", "BrIf", "Return", "Unreachable",
     "BrTable"}

IsJump(operator) == operator.op \in JumpKinds

(***************************************************************************)
(* get_bb_from_operator.  BBScan is the `loop`: it returns the final       *)
(* range.start, or -1 when the loop leaves through `return None`.          *)
(***************************************************************************)
\* The loop stopping short of the jump instead of on it.
RECURSIVE BBScan_Exclusive(_, _, _)
BBScan_Exclusive(operators, start, found) ==
    IF IsJump(At(operators, start))
    THEN IF ~found THEN -1 ELSE start + 1
    ELSE IF start > 0 THEN BBScan_Exclusive(operators, start - 1, TRUE) ELSE start

RECURSIVE BBScan(_, _, _)
BBScan(operators, start, found) ==
    IF IsJump(At(operators, start))
    THEN IF ~found THEN -1 ELSE start
    ELSE IF start > 0 THEN BBScan(operators, start - 1, TRUE) ELSE start

\* range.end as initialised before the loop.
RangeEnd_Exclusive(operator_index) == operator_index

RangeEnd(operator_index) == operator_index + 1

NoneBB(why) == [tag |-> "None", why |-> why, start |-> 0, end |-> 0]
SomeBB(start, end) == [tag |-> "Some", why |-> "", start |-> start, end |-> end]

get_bb_from_operator(operator_index, operators) ==
    LET start == BBScan(operators, operator_index, FALSE)
        end   == RangeEnd(operator_index)
    IN  IF start = -1 THEN NoneBB("jump")
        ELSE IF end - start > 0 THEN SomeBB(start, end)
        ELSE NoneBB("zero_width")

(***************************************************************************)
(* Module metadata read by get_dfg: the function types behind              *)
(* info.get_functype_idx, info.global_types and the `locals` argument.     *)
(* One module is fixed: function 0 is [] -> [], function 1 is              *)
(* [i32 i32] -> [i32], function 2 is [i32] -> [i32 i32]; one i32 local and *)
(* one i32 global.  Every index an operator carries is in range.           *)
(***************************************************************************)
FuncTypes ==
    << [params |-> << >>,           returns |-> << >>],
       [params |-> <<"I32", "I32">>, returns |-> <<"I32">>],
       [params |-> <<"I32">>,        returns |-> <<"I32", "I32">>] >>

get_functype_idx(function_index) == At(FuncTypes, function_index)

locals == <<"I32">>

global_types == <<"I32">>

(***************************************************************************)
(* The arms of the `match operator` in get_dfg.                            *)
(***************************************************************************)
I64BinaryKinds ==
    {"I64Add", "I64Sub", "I64Mul", "I64DivS", "I64DivU", "I64Shl", "I64ShrS",
     "I64Xor", "I64Or", "I64And", "I64Rotl", "I64Rotr", "I64ShrU", "I64RemS",
     "I64RemU"}

I32BinaryKinds ==
    {"I32Add", "I32Sub", "I32Eq", "I32Ne", "I32LtS", "I32LtU", "I32GtS",
     "I32GtU", "I32LeS", "I32LeU", "I32GeS", "I32GeU", "I32Mul", "I32DivS",
     "I32DivU", "I32Shl", "I32ShrS", "I32Xor", "I32Or", "I64Eq", "I64Ne",
     "I64LtS", "I64LtU", "I64GtS", "I64GtU", "I64LeS", "I64LeU", "I64GeS",
     "I64GeU", "I32And", "I32ShrU", "I32Rotl", "I32Rotr", "I32RemS", "I32RemU"}

ProducerKinds == {"LocalGet", "GlobalGet", "I32Const", "I64Const"}

StoreKinds == {"I32Store", "I64Store"}

UnaryKinds == {"I32Load", "I64Load", "I32Eqz", "I64Eqz", "I32WrapI64"}

MarkerKinds ==
    {"Else", "End", "Nop", "Br", "BrTable", "BrIf", "Return", "Unreachable"}

\* A slip that records every operator without an arm of its own as a marker.
Arm_SkipUnknown(operator) ==
    CASE operator.op = "Call"            -> "Call"
      [] operator.op \in ProducerKinds   -> "Producer"
      [] operator.op = "GlobalSet"       -> "GlobalSet"
      [] operator.op = "LocalSet"        -> "LocalSet"
      [] operator.op = "LocalTee"        -> "LocalTee"
      [] operator.op \in StoreKinds      -> "Store"
      [] operator.op \in UnaryKinds      -> "Unary"
      [] operator.op \in I64BinaryKinds  -> "Binary"
      [] operator.op \in I32BinaryKinds  -> "Binary"
      [] operator.op = "Drop"            -> "Drop"
      [] OTHER                           -> "Marker"

Arm(operator) ==
    CASE operator.op = "Call"            -> "Call"
      [] operator.op \in ProducerKinds   -> "Producer"
      [] operator.op = "GlobalSet"       -> "GlobalSet"
      [] operator.op = "LocalSet"        -> "LocalSet"
      [] operator.op = "LocalTee"        -> "LocalTee"
      [] operator.op \in StoreKinds      -> "Store"
      [] operator.op \in UnaryKinds      -> "Unary"
      [] operator.op \in I64BinaryKinds  -> "Binary"
      [] operator.op \in I32BinaryKinds  -> "Binary"
      [] operator.op = "Drop"            -> "Drop"
      [] operator.op \in MarkerKinds     -> "Marker"
      [] OTHER                           -> "Unsupported"

(***************************************************************************)
(* StackType and return type chosen by each arm.  A StackType is a tuple   *)
(* whose head is the variant name.                                         *)
(***************************************************************************)
ProducerStackType(operator) ==
    CASE operator.op = "LocalGet"  -> <<"LocalGet", operator.arg>>
      [] operator.op = "GlobalGet" -> <<"GlobalGet", operator.arg>>
      [] operator.op = "I32Const"  -> <<"I32", operator.arg>>
      [] operator.op = "I64Const"  -> <<"I64", operator.arg>>

ProducerReturnType(operator) ==
    CASE operator.op = "LocalGet"  -> At(locals, operator.arg)
      [] operator.op = "GlobalGet" -> At(global_types, operator.arg)
      [] operator.op = "I32Const"  -> "I32"
      [] operator.op = "I64Const"  -> "I64"

\* Load { offset, align, memory } keeps the memarg, abstracted to operator.arg.
UnaryStackType(operator, idx) ==
    IF operator.op \in {"I32Load", "I64Load"}
    THEN <<"Load", operator.arg>>
    ELSE <<"IndexAtCode", idx, 1>>

UnaryReturnType(operator) ==
    IF operator.op = "I64Load" THEN "I64" ELSE "I32"

BinaryReturnType(operator) ==
    IF operator.op \in I64BinaryKinds THEN "I64" ELSE "I32"

\* `tpe.returns.len() > 1` with the bound off by one.
MultiReturn_OffByOne(tpe) == Len(tpe.returns) > 2

\* `tpe.returns.len() > 1` written as `>= 1`.
MultiReturn_AnyReturn(tpe) == Len(tpe.returns) >= 1

MultiReturn(tpe) == Len(tpe.returns) > 1

\* A callee without result given a value type all the same.
CallReturnType_NeverEmpty(tpe) ==
    IF Len(tpe.returns) = 0 THEN "I32" ELSE At(tpe.returns, 0)

CallReturnType(tpe) ==
    IF Len(tpe.returns) = 0 THEN "Empty" ELSE At(tpe.returns, 0)

(***************************************************************************)
(* The collections get_dfg builds, passed by &mut to push_node and         *)
(* pop_operand: a builder b is the record                                  *)
(*   [dfg_map, operatormap, stack, parents].                               *)
(* operatormap (a HashMap) is a function on the set of its keys.           *)
(***************************************************************************)
EmptyMap == [k \in {} |-> 0]

\* An insertion that keeps the value already stored under the key.
Insert_KeepFirst(m, k, v) ==
    [x \in (DOMAIN m) \cup {k} |-> IF x \in DOMAIN m THEN m[x] ELSE v]

Insert(m, k, v) == [x \in (DOMAIN m) \cup {k} |-> IF x = k THEN v ELSE m[x]]

NoParent == -1

\* A StackEntry whose entry_idx field is given the instruction index.
StackEntry_OperatorIdx(operator, operands, return_type, entry_idx, color, operator_idx) ==
    [operator |-> operator, operands |-> operands, return_type |-> return_type,
     entry_idx |-> operator_idx, color |-> color, operator_idx |-> operator_idx]

StackEntry(operator, operands, return_type, entry_idx, color, operator_idx) ==
    [operator |-> operator, operands |-> operands, return_type |-> return_type,
     entry_idx |-> entry_idx, color |-> color, operator_idx |-> operator_idx]

\* push_node without the test on the return type: every entry is pushed on
\* the symbolic stack.
push_node_AlwaysPush(b, operator, operator_idx, operands, color, return_type) ==
    LET entry_idx == Len(b.dfg_map)
        newnode   == StackEntry(operator, operands, return_type, entry_idx,
                                color, operator_idx)
    IN  [b |-> [dfg_map     |-> Append(b.dfg_map, newnode),
                operatormap |-> Insert(b.operatormap, operator_idx, entry_idx),
                stack       |-> Append(b.stack, entry_idx),
                parents     |-> Append(b.parents, NoParent)],
         idx |-> entry_idx]

\* push_node: returns the builder after the push and the new entry's index.
push_node(b, operator, operator_idx, operands, color, return_type) ==
    LET entry_idx     == Len(b.dfg_map)
        push_to_stack == return_type # "Empty"
        newnode       == StackEntry(operator, operands, return_type, entry_idx,
                                    color, operator_idx)
    IN  [b |-> [dfg_map     |-> Append(b.dfg_map, newnode),
                operatormap |-> Insert(b.operatormap, operator_idx, entry_idx),
                stack       |-> IF push_to_stack
                                THEN Append(b.stack, entry_idx)
                                ELSE b.stack,
                parents     |-> Append(b.parents, NoParent)],
         idx |-> entry_idx]

\* An Undef colour taken from the top of the colour range instead of 0.
UndefColor_Sentinel == 2^8 - 1

\* The colour pop_operand gives an Undef leaf.
UndefColor == 0

\* pop_operand reading the top of the stack (`stack.last()`) without
\* removing it.
pop_operand_Peek(b, operator_idx, insertindfg) ==
    IF Len(b.stack) > 0
    THEN [b   |-> b,
          idx |-> At(b.stack, Len(b.stack) - 1)]
    ELSE LET entry_idx == Len(b.dfg_map)
             leaf == StackEntry(<<"Undef">>, << >>, "Empty", entry_idx,
                                UndefColor, operator_idx)
         IN  [b |-> [dfg_map     |-> Append(b.dfg_map, leaf),
                     operatormap |-> IF insertindfg
                                     THEN Insert(b.operatormap, operator_idx, entry_idx)
                                     ELSE b.operatormap,
                     stack       |-> b.stack,
                     parents     |-> Append(b.parents, NoParent)],
              idx |-> entry_idx]

\* pop_operand with the commented-out `stack.push(entry_idx)` left in: the
\* Undef leaf is pushed on the symbolic stack as well as returned.
pop_operand_PushUndef(b, operator_idx, insertindfg) ==
    IF Len(b.stack) > 0
    THEN [b   |-> [b EXCEPT !.stack = SubSeq(b.stack, 1, Len(b.stack) - 1)],
          idx |-> At(b.stack, Len(b.stack) - 1)]
    ELSE LET entry_idx == Len(b.dfg_map)
             leaf == StackEntry(<<"Undef">>, << >>, "Empty", entry_idx,
                                UndefColor, operator_idx)
         IN  [b |-> [dfg_map     |-> Append(b.dfg_map, leaf),
                     operatormap |-> IF insertindfg
                                     THEN Insert(b.operatormap, operator_idx, entry_idx)
                                     ELSE b.operatormap,
                     stack       |-> Append(b.stack, entry_idx),
                     parents     |-> Append(b.parents, NoParent)],
              idx |-> entry_idx]

\* pop_operand: returns the builder after the pop and the operand's index.
pop_operand(b, operator_idx, insertindfg) ==
    IF Len(b.stack) > 0
    THEN [b   |-> [b EXCEPT !.stack = SubSeq(b.stack, 1, Len(b.stack) - 1)],
          idx |-> At(b.stack, Len(b.stack) - 1)]
    ELSE LET entry_idx == Len(b.dfg_map)
             leaf == StackEntry(<<"Undef">>, << >>, "Empty", entry_idx,
                                UndefColor, operator_idx)
         IN  [b |-> [dfg_map     |-> Append(b.dfg_map, leaf),
                     operatormap |-> IF insertindfg
                                     THEN Insert(b.operatormap, operator_idx, entry_idx)
                                     ELSE b.operatormap,
                     stack       |-> b.stack,
                     parents     |-> Append(b.parents, NoParent)],
              idx |-> entry_idx]

\* `(0..n).map(|_| pop_operand(..)).collect()`: n pops, in pop order.
RECURSIVE pop_operands(_, _, _)
pop_operands(b, operator_idx, n) ==
    IF n = 0
    THEN [b |-> b, operands |-> << >>]
    ELSE LET first == pop_operand(b, operator_idx, TRUE)
             rest  == pop_operands(first.b, operator_idx, n - 1)
         IN  [b |-> rest.b, operands |-> <<first.idx>> \o rest.operands]

\* The operands of a binary entry left in pop order.
BinaryOperands_PopOrder(leftidx, rightidx) == <<leftidx, rightidx>>

\* `vec![rightidx, leftidx], // reverse order`
BinaryOperands(leftidx, rightidx) == <<rightidx, leftidx>>

\* A side-effecting arm that leaves the colour as it is.
BumpColor_Forgotten(c) == c

\* `color += 1`
BumpColor(c) == c + 1

\* The drop arm with its commented-out `color += 1` put back.
DropColor_Bumped(c) == c + 1

\* Operator::Drop: `//color += 1;`
DropColor(c) == c

\* The popped operands kept in pop order.
Reverse_Identity(v) == v

\* Vec::reverse
Reverse(v) == [i \in 1 .. Len(v) |-> v[Len(v) + 1 - i]]

\* The parent written for the first operand only.
SetParents_FirstOnly(parents, operands, fidx) ==
    IF operands = << >>
    THEN parents
    ELSE SetAt(parents, Head(operands), fidx)

\* `for id in &operands { parents[*id] = fidx }`
RECURSIVE SetParents(_, _, _)
SetParents(parents, operands, fidx) ==
    IF operands = << >>
    THEN parents
    ELSE SetParents(SetAt(parents, Head(operands), fidx), Tail(operands), fidx)

(***************************************************************************)
(* State.  operators, operator_index: the inputs.  basicblock: the result  *)
(* of get_bb_from_operator.  idx, dfg_map, operatormap, stack, parents,    *)
(* color: the locals of get_dfg.  result: what get_dfg returned.           *)
(* pc: "bb" before get_bb_from_operator, "nobb" when it returned None,     *)
(* "dfg" inside get_dfg's loop, "done" when get_dfg returned, "panic" when *)
(* an assertion of get_dfg failed.                                         *)
(***************************************************************************)
VARIABLES operators, operator_index, pc, basicblock, idx,
          dfg_map, operatormap, stack, parents, color, result

(***************************************************************************)
(* State of RandomExtractor.  egraph: the e-graph, its classes indexed by  *)
(* class id and the order egraph.classes() yields them in.  eclass,        *)
(* max_depth: the arguments of extract_random.  costs: the cost table      *)
(* (class id -> (cost, node index)).  id_to_node, ex_operands,             *)
(* ex_worklist: the locals id_to_node, operands and worklist of            *)
(* extract_random.  rnd: the values drawn from the random source so far.   *)
(* For the extractor pc is "find_costs" inside find_costs' loop, "ready"   *)
(* once RandomExtractor::new returned, "walk" inside extract_random,       *)
(* "extracted" when it returned, "panic" after a panic.                    *)
(***************************************************************************)
VARIABLES egraph, eclass, max_depth, costs, id_to_node, ex_operands,
          ex_worklist, rnd

dfgvars == <<operators, operator_index, basicblock, idx,
             dfg_map, operatormap, stack, parents, color, result>>

exvars == <<egraph, eclass, max_depth, costs, id_to_node, ex_operands,
            ex_worklist, rnd>>

vars == <<operators, operator_index, pc, basicblock, idx,
          dfg_map, operatormap, stack, parents, color, result, exvars>>

\* No extractor is at work while the delimiter and the builder run.
ExIdle ==
    /\ egraph = [classes |-> << >>, order |-> << >>]
    /\ eclass = 0
    /\ max_depth = 0
    /\ costs = EmptyMap
    /\ id_to_node = << >>
    /\ ex_operands = << >>
    /\ ex_worklist = << >>
    /\ rnd = << >>

Builder ==
    [dfg_map |-> dfg_map, operatormap |-> operatormap, stack |-> stack,
     parents |-> parents]

NoResult(tag) == [tag |-> tag, map |-> EmptyMap, entries |-> << >>, parents |-> << >>]

MiniDFG(map, entries, ps) ==
    [tag |-> "Some", map |-> map, entries |-> entries, parents |-> ps]

\* Operator streams of 1..MaxLen operators over an alphabet.
Streams(alphabet) == UNION {[1 .. n -> alphabet] : n \in 1 .. MaxLen}

(***************************************************************************)
(* Input alphabet of the builder's specification: at least one operator    *)
(* for every arm of get_dfg's match (three calls, one per function type),  *)
(* both kinds of block delimiter (a marker and a non-marker one), and an   *)
(* operator get_dfg does not implement.                                    *)
(***************************************************************************)
DfgAlphabet ==
    { Op("Call", 0), Op("Call", 1), Op("Call", 2),
      Op("LocalGet", 0), Op("I32Const", 0),
      Op("GlobalSet", 0), Op("LocalSet", 0), Op("LocalTee", 0),
      Op("I32Store", 0), Op("I32Load", 0), Op("I32Eqz", 0),
      Op("I32Add", 0), Op("I64Add", 0), Op("Drop", 0),
      Op("End", 0), Op("Nop", 0), Op("Block", 0), Op("F32Add", 0) }

(***************************************************************************)
(* Input alphabet of the delimiter's specification: every jump operator    *)
(* and a few others.                                                       *)
(***************************************************************************)
BBAlphabet ==
    { Op("If", 0), Op("Else", 0), Op("End", 0), Op("Block", 0), Op("Loop", 0),
      Op("Br", 0), Op("BrIf", 0), Op("BrTable", 0), Op("Return", 0),
      Op("Unreachable", 0),
      Op("Nop", 0), Op("I32Const", 0), Op("I32Add", 0), Op("Call", 1),
      Op("LocalSet", 0), Op("F32Add", 0) }

\* A running colour that starts at the colour of Undef.
InitialColor_Undef == UndefColor

\* `let mut color = 1; // start with color 1 since 0 is undef`
InitialColor == 1

(***************************************************************************)
(* Input alphabet for the arms that leave the colour alone: every marker   *)
(* operator, drop, a load, eqz, the conversion, a binary operator, a       *)
(* constant, local.get and global.get; one operator for each of the other  *)
(* arms; and block, loop and if, which open a nested block.                *)
(***************************************************************************)
NeutralAlphabet ==
    { Op("Else", 0), Op("End", 0), Op("Nop", 0), Op("Br", 0), Op("BrTable", 0),
      Op("BrIf", 0), Op("Return", 0), Op("Unreachable", 0),
      Op("Drop", 0), Op("I32Load", 0), Op("I32Eqz", 0), Op("I32WrapI64", 0),
      Op("I32Add", 0), Op("I32Const", 0), Op("LocalGet", 0), Op("GlobalGet", 0),
      Op("Call", 0), Op("GlobalSet", 0), Op("LocalSet", 0), Op("LocalTee", 0),
      Op("I32Store", 0), Op("Block", 0), Op("Loop", 0), Op("If", 0) }

InitLocals ==
    /\ pc = "bb"
    /\ basicblock = NoneBB("")
    /\ idx = 0
    /\ dfg_map = << >>
    /\ operatormap = EmptyMap
    /\ stack = << >>
    /\ parents = << >>
    /\ color = InitialColor
    /\ result = NoResult("Pending")

\* Neither function reads an operator after operator_index, so the stream
\* is cut right after the probed operator.
Init ==
    /\ operators \in Streams(DfgAlphabet)
    /\ operator_index = Len(operators) - 1
    /\ InitLocals
    /\ ExIdle

InitNeutral ==
    /\ operators \in Streams(NeutralAlphabet)
    /\ operator_index = Len(operators) - 1
    /\ InitLocals
    /\ ExIdle

\* Any probe of any stream.
InitBB ==
    /\ operators \in Streams(BBAlphabet)
    /\ operator_index \in Indices(operators)
    /\ InitLocals
    /\ ExIdle

(***************************************************************************)
(* get_bb_from_operator(operator_index, operators); the caller goes on to  *)
(* get_dfg only with a block.                                              *)
(***************************************************************************)
GetBB ==
    /\ pc = "bb"
    /\ basicblock' = get_bb_from_operator(operator_index, operators)
    /\ pc' = IF basicblock'.tag = "Some" THEN "dfg" ELSE "nobb"
    /\ idx' = basicblock'.start
    /\ UNCHANGED <<operators, operator_index, dfg_map, operatormap, stack,
                   parents, color, result>>
    /\ UNCHANGED exvars

(***************************************************************************)
(* get_dfg: one action per arm of the match, one loop iteration each.      *)
(***************************************************************************)
InLoop(arm) ==
    /\ pc = "dfg"
    /\ idx < basicblock.end
    /\ Arm(At(operators, idx)) = arm

\* The end of an iteration: the builder b and the parents ps replace the
\* collections, the colour becomes c.
Continue(b, ps, c) ==
    /\ dfg_map' = b.dfg_map
    /\ operatormap' = b.operatormap
    /\ stack' = b.stack
    /\ parents' = ps
    /\ color' = c
    /\ idx' = idx + 1
    /\ UNCHANGED <<operators, operator_index, pc, basicblock, result>>
    /\ UNCHANGED exvars

\* `return None`
ReturnNone ==
    /\ pc' = "done"
    /\ result' = NoResult("None")
    /\ UNCHANGED <<operators, operator_index, basicblock, idx, dfg_map,
                   operatormap, stack, parents, color>>
    /\ UNCHANGED exvars

\* A failed assert_ne!
Panic ==
    /\ pc' = "panic"
    /\ result' = NoResult("Panic")
    /\ UNCHANGED <<operators, operator_index, basicblock, idx, dfg_map,
                   operatormap, stack, parents, color>>
    /\ UNCHANGED exvars

\* Operator::Call
StepCall ==
    /\ InLoop("Call")
    /\ LET function_index == At(operators, idx).arg
           tpe == get_functype_idx(function_index)
       IN  IF MultiReturn(tpe)
           THEN ReturnNone
           ELSE LET popped   == pop_operands(Builder, idx, Len(tpe.params))
                    operands == Reverse(popped.operands)
                    pushed   == push_node(popped.b,
                                          <<"Call", function_index, Len(tpe.params)>>,
                                          idx, operands, color, CallReturnType(tpe))
                    fidx     == pushed.idx
                IN  Continue(pushed.b,
                             SetParents(pushed.b.parents, operands, fidx),
                             BumpColor(color))

\* Operator::LocalGet, GlobalGet, I32Const, I64Const
StepProducer ==
    /\ InLoop("Producer")
    /\ LET operator == At(operators, idx)
           pushed   == push_node(Builder, ProducerStackType(operator), idx, << >>,
                                 color, ProducerReturnType(operator))
       IN  Continue(pushed.b, pushed.b.parents, color)

\* Operator::GlobalSet: the parent written is idx, the instruction index.
StepGlobalSet ==
    /\ InLoop("GlobalSet")
    /\ LET popped == pop_operand(Builder, idx, TRUE)
           child  == popped.idx
           pushed == push_node(popped.b, <<"GlobalSet", At(operators, idx).arg>>,
                               idx, <<child>>, color, "Empty")
       IN  Continue(pushed.b, SetAt(pushed.b.parents, child, idx), BumpColor(color))

\* Operator::LocalSet: `let idx = push_node(..)` shadows the instruction
\* index, the parent written is the new entry's index.
StepLocalSet ==
    /\ InLoop("LocalSet")
    /\ LET popped == pop_operand(Builder, idx, TRUE)
           child  == popped.idx
           pushed == push_node(popped.b, <<"LocalSet", At(operators, idx).arg>>,
                               idx, <<child>>, color, "Empty")
       IN  Continue(pushed.b, SetAt(pushed.b.parents, child, pushed.idx),
                    BumpColor(color))

\* Operator::LocalTee
StepLocalTee ==
    /\ InLoop("LocalTee")
    /\ LET local_index == At(operators, idx).arg
           popped == pop_operand(Builder, idx, TRUE)
           child  == popped.idx
           pushed == push_node(popped.b, <<"LocalTee", local_index>>,
                               idx, <<child>>, color, At(locals, local_index))
       IN  Continue(pushed.b, SetAt(pushed.b.parents, child, pushed.idx),
                    BumpColor(color))

\* Operator::I32Store | I64Store: one operand is popped.
StepStore ==
    /\ InLoop("Store")
    /\ LET popped == pop_operand(Builder, idx, FALSE)
           offset == popped.idx
           pushed == push_node(popped.b, <<"IndexAtCode", idx, 1>>,
                               idx, <<offset>>, color, "Empty")
       IN  Continue(pushed.b, SetAt(pushed.b.parents, offset, pushed.idx),
                    BumpColor(color))

\* Operator::I32Load, I64Load, I32Eqz, I64Eqz, I32WrapI64
StepUnary ==
    /\ InLoop("Unary")
    /\ LET operator == At(operators, idx)
           popped   == pop_operand(Builder, idx, FALSE)
           operand  == popped.idx
           pushed   == push_node(popped.b, UnaryStackType(operator, idx),
                                 idx, <<operand>>, color, UnaryReturnType(operator))
       IN  Continue(pushed.b, SetAt(pushed.b.parents, operand, pushed.idx), color)

\* The i64 binary arm and the i32 binary / comparison arm.
StepBinary ==
    /\ InLoop("Binary")
    /\ LET operator == At(operators, idx)
           left     == pop_operand(Builder, idx, FALSE)
           leftidx  == left.idx
           right    == pop_operand(left.b, idx, FALSE)
           rightidx == right.idx
       IN  IF leftidx = rightidx
           THEN Panic
           ELSE LET pushed == push_node(right.b, <<"IndexAtCode", idx, 2>>,
                                        idx, BinaryOperands(leftidx, rightidx), color,
                                        BinaryReturnType(operator))
                IN  Continue(pushed.b,
                             SetAt(SetAt(pushed.b.parents, leftidx, pushed.idx),
                                   rightidx, pushed.idx),
                             color)

\* Operator::Drop: the colour is not changed.
StepDrop ==
    /\ InLoop("Drop")
    /\ LET popped == pop_operand(Builder, idx, FALSE)
           arg    == popped.idx
           pushed == push_node(popped.b, <<"Drop">>, idx, <<arg>>, color, "Empty")
       IN  Continue(pushed.b, SetAt(pushed.b.parents, arg, pushed.idx),
                    DropColor(color))

\* The marker arm going through push_node like the other arms.
StepMarker_ViaPushNode ==
    /\ InLoop("Marker")
    /\ LET pushed == push_node(Builder, <<"IndexAtCode", idx, 0>>, idx, << >>,
                               color, "Empty")
       IN  Continue(pushed.b, pushed.b.parents, color)

\* Operator::Else | End | Nop | Br | BrTable | BrIf | Return | Unreachable:
\* the entry is appended without push_node, so operatormap gets no key.
StepMarker ==
    /\ InLoop("Marker")
    /\ LET entry_idx == Len(dfg_map)
           newnode   == StackEntry(<<"IndexAtCode", idx, 0>>, << >>, "Empty",
                                   entry_idx, color, idx)
       IN  Continue([Builder EXCEPT !.dfg_map = Append(dfg_map, newnode)],
                    Append(parents, NoParent), color)

\* `_ => return None`
StepUnsupported ==
    /\ InLoop("Unsupported")
    /\ ReturnNone

\* The loop is over: Some(MiniDFG { entries, map, parents }).
ReturnSome ==
    /\ pc = "dfg"
    /\ idx = basicblock.end
    /\ pc' = "done"
    /\ result' = MiniDFG(operatormap, dfg_map, parents)
    /\ UNCHANGED <<operators, operator_index, basicblock, idx, dfg_map,
                   operatormap, stack, parents, color>>
    /\ UNCHANGED exvars

Next ==
    \/ GetBB
    \/ StepCall
    \/ StepProducer
    \/ StepGlobalSet
    \/ StepLocalSet
    \/ StepLocalTee
    \/ StepStore
    \/ StepUnary
    \/ StepBinary
    \/ StepDrop
    \/ StepMarker
    \/ StepUnsupported
    \/ ReturnSome

\* The delimiter followed by the builder, on every stream.
Spec == Init /\ [][Next]_vars

\* The delimiter alone, on every probe of every stream.
SpecBB == InitBB /\ [][GetBB]_vars

\* The delimiter followed by the builder, on the streams of NeutralAlphabet.
SpecNeutral == InitNeutral /\ [][Next]_vars

(***************************************************************************)
(* RandomExtractor (eggsy/mod.rs).                                         *)
(*                                                                         *)
(* An e-node is [op, children], children being class ids; class ids are    *)
(* canonical (egraph.find is the identity, as after a rebuild).  An        *)
(* e-graph is [classes, order]: classes[id] is the node list of class id,  *)
(* order is the sequence in which egraph.classes() yields the class ids.   *)
(***************************************************************************)
Node(op, children) == [op |-> op, children |-> children]

ClassIds(g) == Indices(g.classes)

Nodes(g, id) == At(g.classes, id)

RECURSIVE SumSeq(_)
SumSeq(v) == IF v = << >> THEN 0 ELSE Head(v) + SumSeq(Tail(v))

\* The cost function the extractor is built with: egg's AstSize,
\* `node.fold(1, |sum, id| sum + costs(id))`.
cost_function(node, cs) ==
    1 + SumSeq([i \in 1 .. Len(node.children) |-> cs[node.children[i]].cost])

\* Option<CF::Cost>
NoCost == [some |-> FALSE, cost |-> 0]
SomeCost(c) == [some |-> TRUE, cost |-> c]

\* node_total_cost
node_total_cost(node, cs) ==
    IF \A i \in 1 .. Len(node.children) : node.children[i] \in DOMAIN cs
    THEN SomeCost(cost_function(node, cs))
    ELSE NoCost

\* cmp with None low.
cmp_NoneIsLow(a, b) ==
    CASE ~a.some /\ ~b.some -> "Equal"
      [] ~a.some /\ b.some  -> "Less"
      [] a.some /\ ~b.some  -> "Greater"
      [] OTHER -> IF a.cost < b.cost THEN "Less"
                  ELSE IF a.cost > b.cost THEN "Greater" ELSE "Equal"

\* cmp: None is high.
cmp(a, b) ==
    CASE ~a.some /\ ~b.some -> "Equal"
      [] ~a.some /\ b.some  -> "Greater"
      [] a.some /\ ~b.some  -> "Less"
      [] OTHER -> IF a.cost < b.cost THEN "Less"
                  ELSE IF a.cost > b.cost THEN "Greater" ELSE "Equal"

\* Iterator::min_by over (cost, i) pairs: the first of the minimal elements.
RECURSIVE min_by(_, _)
min_by(best, rest) ==
    IF rest = << >>
    THEN best
    ELSE min_by(IF cmp(best.cost, Head(rest).cost) = "Greater"
                THEN Head(rest) ELSE best,
                Tail(rest))

\* make_pass with `unwrap_or_else(panic!)` turned into no cost for the class.
make_pass_EmptyIsNone(cs, nodes) ==
    IF Len(nodes) = 0
    THEN [tag |-> "None", cost |-> 0, node_idx |-> 0]
    ELSE LET pairs == [i \in 1 .. Len(nodes) |->
                          [cost |-> node_total_cost(nodes[i], cs), i |-> i - 1]]
             best  == min_by(Head(pairs), Tail(pairs))
         IN  IF best.cost.some
             THEN [tag |-> "Some", cost |-> best.cost.cost, node_idx |-> best.i]
             ELSE [tag |-> "None", cost |-> 0, node_idx |-> 0]

\* make_pass: Some((cost, node_idx)), None, or the panic on an empty class.
make_pass(cs, nodes) ==
    IF Len(nodes) = 0
    THEN [tag |-> "Panic", cost |-> 0, node_idx |-> 0]
    ELSE LET pairs == [i \in 1 .. Len(nodes) |->
                          [cost |-> node_total_cost(nodes[i], cs), i |-> i - 1]]
             best  == min_by(Head(pairs), Tail(pairs))
         IN  IF best.cost.some
             THEN [tag |-> "Some", cost |-> best.cost.cost, node_idx |-> best.i]
             ELSE [tag |-> "None", cost |-> 0, node_idx |-> 0]

\* The match arm without its guard: any new cost replaces the old one.
Improves_Always(new, old) == TRUE

\* `(Some(old), Some(new)) if new.0 < old.0`
Improves(new, old) == new.cost < old.cost

\* One iteration of find_costs' `while did_something`: the `for class in
\* self.egraph.classes()` sweep over the ids still to visit.
RECURSIVE Sweep(_, _, _)
Sweep(g, todo, acc) ==
    IF todo = << >>
    THEN acc
    ELSE LET id   == Head(todo)
             pass == make_pass(acc.costs, Nodes(g, id))
             new  == [cost |-> pass.cost, node_idx |-> pass.node_idx]
         IN  IF pass.tag = "Panic"
             THEN [acc EXCEPT !.panicked = TRUE]
             ELSE IF pass.tag = "Some" /\ id \notin DOMAIN acc.costs
             THEN Sweep(g, Tail(todo),
                        [acc EXCEPT !.costs = Insert(acc.costs, id, new),
                                    !.did_something = TRUE])
             ELSE IF pass.tag = "Some" /\ Improves(new, acc.costs[id])
             THEN Sweep(g, Tail(todo),
                        [acc EXCEPT !.costs = Insert(acc.costs, id, new),
                                    !.did_something = TRUE])
             ELSE Sweep(g, Tail(todo), acc)

\* `depth > max_depth`: the forced choice starting one level late.
ForcedChoice_Late(depth, md) == depth > md

\* `depth >= max_depth`
ForcedChoice(depth, md) == depth >= md

\* The id given to an operand read after the node was pushed.
OperandId_AfterPush(nodes) == Len(nodes) + 1

\* `Id::from(id_to_node.len())` / `id_to_node.len()` before the push.
OperandId(nodes) == Len(nodes)

\* The children put on the worklist without `.rev()`.
WorklistItems_Forward(parent, parentidx, children, depth) ==
    [i \in 1 .. Len(children) |-> <<parent, parentidx, children[i], depth>>]

\* `children().iter().rev().map(|id| (parent, parentidx, id, depth))`
WorklistItems(parent, parentidx, children, depth) ==
    [i \in 1 .. Len(children) |->
        <<parent, parentidx, children[Len(children) + 1 - i], depth>>]

\* The operand attached to its own position instead of its parent's.
LastNodeId_Current(parentidx, nodes) == Len(nodes)

\* `let last_node_id = parentidx;`
LastNodeId(parentidx, nodes) == parentidx

\* The walk keeping children at their parent's depth.
ChildDepth_Same(depth) == depth

\* `depth + 1`
ChildDepth(depth) == depth + 1

MaxDepth == 2

Perms(S) == {f \in [1 .. Cardinality(S) -> S] : \A i, j \in DOMAIN f : f[i] = f[j] => i = j}

(***************************************************************************)
(* The e-graphs the extractor is run on (class 0 first):                   *)
(*   leaves only; the test's graph of rule ?x => (unfold ?x), a class      *)
(*   holding a node whose child is the class itself; the same with a       *)
(*   binary node; a chain whose cheapest nodes are not leaves; a loop      *)
(*   whose cheapest node is not a leaf; two nodes of equal cost in one     *)
(*   class; a class whose cost drops in a later pass; a binary node with   *)
(*   two different child classes; a class without any node; a class no     *)
(*   finite term represents.                                               *)
(***************************************************************************)
EGraphClasses ==
    { << <<Node("rand", << >>), Node("undef", << >>)>> >>,
      << <<Node("Symbol", << >>), Node("unfold", <<0>>)>> >>,
      << <<Node("add", <<0, 0>>), Node("Num", << >>)>> >>,
      << <<Node("add", <<1, 1>>)>>, <<Node("unfold", <<2>>)>>,
         <<Node("rand", << >>)>> >>,
      << <<Node("unfold", <<0>>), Node("unfold", <<1>>)>>,
         <<Node("rand", << >>)>> >>,
      << <<Node("popcnt", <<1>>), Node("load", <<2>>)>>,
         <<Node("rand", << >>)>>, <<Node("undef", << >>)>> >>,
      << <<Node("unfold", <<1>>), Node("add", <<2, 2>>)>>,
         <<Node("undef", << >>)>>, <<Node("rand", << >>)>> >>,
      << <<Node("sub", <<1, 2>>)>>,
         <<Node("rand", << >>)>>, <<Node("undef", << >>)>> >>,
      << <<Node("unfold", <<1>>)>>, << >> >>,
      << <<Node("rand", << >>), Node("unfold", <<1>>)>>,
         <<Node("unfold", <<1>>)>> >> }

EGraphs ==
    UNION { {[classes |-> cl, order |-> o] : o \in Perms(Indices(cl))}
            : cl \in EGraphClasses }

\* RandomExtractor::new is about to run find_costs on an e-graph; the
\* delimiter and the builder are not at work.
InitEx ==
    /\ egraph \in EGraphs
    /\ eclass \in ClassIds(egraph)
    /\ max_depth \in 0 .. MaxDepth
    /\ pc = "find_costs"
    /\ costs = EmptyMap
    /\ id_to_node = << >>
    /\ ex_operands = << >>
    /\ ex_worklist = << >>
    /\ rnd = << >>
    /\ operators = << >>
    /\ operator_index = 0
    /\ basicblock = NoneBB("")
    /\ idx = 0
    /\ dfg_map = << >>
    /\ operatormap = EmptyMap
    /\ stack = << >>
    /\ parents = << >>
    /\ color = 1
    /\ result = NoResult("Pending")

\* One iteration of `while did_something` in find_costs; after the
\* iteration that changes nothing, RandomExtractor::new returns.
FindCostsPass ==
    /\ pc = "find_costs"
    /\ LET r == Sweep(egraph, egraph.order,
                      [costs |-> costs, did_something |-> FALSE,
                       panicked |-> FALSE])
       IN  /\ costs' = r.costs
           /\ pc' = IF r.panicked THEN "panic"
                    ELSE IF r.did_something THEN "find_costs" ELSE "ready"
    /\ UNCHANGED <<egraph, eclass, max_depth, id_to_node, ex_operands,
                   ex_worklist, rnd>>
    /\ UNCHANGED dfgvars

\* extract_random up to its loop: the root node is drawn at random.
ExtractRoot ==
    /\ pc = "ready"
    /\ \E rootidx \in Indices(Nodes(egraph, eclass)) :
          LET rootnode == At(Nodes(egraph, eclass), rootidx)
          IN  /\ rnd' = Append(rnd, rootidx)
              /\ id_to_node' = <<rootnode>>
              /\ ex_operands' = << << >> >>
              /\ ex_worklist' = WorklistItems(eclass, 0, rootnode.children, 0)
    /\ pc' = "walk"
    /\ UNCHANGED <<egraph, eclass, max_depth, costs>>
    /\ UNCHANGED dfgvars

\* The worklist item `worklist.pop()` yields: (parent, parentidx, node, depth).
Popped == ex_worklist[Len(ex_worklist)]

\* `self.costs[&node]` of a class without a recorded cost.
NoForcedNode ==
    /\ ForcedChoice(Popped[4], max_depth)
    /\ Popped[3] \notin DOMAIN costs

\* One iteration of `while let Some(..) = worklist.pop()`.
ExtractStep ==
    /\ pc = "walk"
    /\ ex_worklist # << >>
    /\ ~NoForcedNode
    /\ LET parentidx == Popped[2]
           node      == Popped[3]
           depth     == Popped[4]
           forced    == ForcedChoice(depth, max_depth)
       IN  \E node_idx \in IF forced THEN {costs[node].node_idx}
                           ELSE Indices(Nodes(egraph, node)) :
              LET chosen       == At(Nodes(egraph, node), node_idx)
                  operand      == OperandId(id_to_node)
                  operandidx   == Len(id_to_node)
                  last_node_id == LastNodeId(parentidx, id_to_node)
                  pushed       == Append(ex_operands, << >>)
              IN  /\ rnd' = IF forced THEN rnd ELSE Append(rnd, node_idx)
                  /\ id_to_node' = Append(id_to_node, chosen)
                  /\ ex_operands' =
                        SetAt(pushed, last_node_id,
                              Append(At(pushed, last_node_id), operand))
                  /\ ex_worklist' =
                        SubSeq(ex_worklist, 1, Len(ex_worklist) - 1)
                        \o WorklistItems(operand, operandidx, chosen.children,
                                         ChildDepth(depth))
    /\ pc' = "walk"
    /\ UNCHANGED <<egraph, eclass, max_depth, costs>>
    /\ UNCHANGED dfgvars

\* The forced choice indexes the cost table with a class that has no entry.
ExtractPanic ==
    /\ pc = "walk"
    /\ ex_worklist # << >>
    /\ NoForcedNode
    /\ pc' = "panic"
    /\ UNCHANGED exvars
    /\ UNCHANGED dfgvars

\* The worklist is empty: the encoder gets (Id 0, id_to_node, operands).
ExtractReturn ==
    /\ pc = "walk"
    /\ ex_worklist = << >>
    /\ pc' = "extracted"
    /\ UNCHANGED exvars
    /\ UNCHANGED dfgvars

NextEx ==
    \/ FindCostsPass
    \/ ExtractRoot
    \/ ExtractStep
    \/ ExtractPanic
    \/ ExtractReturn

SpecEx == InitEx /\ [][NextEx]_vars

(***************************************************************************)
(* Properties of the basic block delimiter (checked under SpecBB).         *)
(***************************************************************************)
\* The control-flow boundary instructions: if, else, end, block, loop, br,
\* br_if, br_table, return, unreachable.
BoundaryKinds ==
    {"If", "Else", "End", "Block", "Loop", "Br", "BrIf", "BrTable", "Return",
     "Unreachable"}

IsBoundary(operator) == operator.op \in BoundaryKinds

Delimited == pc # "bb"

Probed == At(operators, operator_index)

\* C2: get_bb_from_operator(i, operators) is None whenever operators[i] is
\* a control-flow boundary instruction.
C2_BoundaryProbeIsNone ==
    (Delimited /\ IsBoundary(Probed)) => basicblock.tag = "None"

\* A br_table probed after two non-boundary instructions gave no block.
C2_Witness ==
    /\ pc = "nobb"
    /\ operator_index = 2
    /\ Probed.op = "BrTable"
    /\ \A k \in 0 .. 1 : ~IsBoundary(At(operators, k))

\* C3: a non-boundary probe always gets a block; a returned range has
\* end = i + 1 > start and a non-boundary instruction at end - 1; and None
\* never comes from the final zero-width test.
C3_NonBoundaryProbeGetsBlock ==
    Delimited =>
        /\ ~IsBoundary(Probed) => basicblock.tag = "Some"
        /\ basicblock.tag = "Some" =>
              /\ basicblock.end = operator_index + 1
              /\ basicblock.end > basicblock.start
              /\ ~IsBoundary(At(operators, basicblock.end - 1))
        /\ basicblock.tag = "None" => basicblock.why # "zero_width"

\* The narrowest block: the first operator of the function probed.
C3_Witness ==
    /\ pc = "dfg"
    /\ operator_index = 0
    /\ basicblock.start = 0
    /\ basicblock.end = 1

Max(S) == CHOOSE x \in S : \A y \in S : y <= x

RECURSIVE ConsistentLoop(_, _, _)
ConsistentLoop(entries, worklist, colors) ==
    IF worklist = << >>
    THEN colors
    ELSE LET entry == At(entries, worklist[Len(worklist)])
             rest  == SubSeq(worklist, 1, Len(worklist) - 1)
         IN  ConsistentLoop(entries, rest \o entry.operands,
                            Append(colors, entry.color))

\* The final test with `any` in place of `all`.
AllEqualFirst_Any(colors) ==
    IF Len(colors) = 0
    THEN FALSE
    ELSE \E x \in 1 .. Len(colors) : colors[x] = colors[1]

\* colors.get(0).and_then(|val| Some(colors.iter().all(|x| x == val)))
\*       .or(Some(false)).unwrap()
AllEqualFirst(colors) ==
    IF Len(colors) = 0
    THEN FALSE
    ELSE \A x \in 1 .. Len(colors) : colors[x] = colors[1]

is_subtree_consistent(entries, current) ==
    AllEqualFirst(ConsistentLoop(entries, <<current>>, << >>))

(***************************************************************************)
(* Properties of the DFG builder (checked under Spec).                     *)
(***************************************************************************)
Returned == pc \in {"done", "panic"}

Built == result.tag = "Some"

BlockIndices == basicblock.start .. (basicblock.end - 1)

Range(v) == {v[i] : i \in 1 .. Len(v)}

\* Following parents[] from entry i reaches the sentinel within `steps`
\* links without leaving the entries.
RECURSIVE ReachesSentinel(_, _, _)
ReachesSentinel(ps, i, steps) ==
    IF i = -1 THEN TRUE
    ELSE IF i \notin Indices(ps) \/ steps = 0 THEN FALSE
    ELSE ReachesSentinel(ps, At(ps, i), steps - 1)

\* C1: in every MiniDFG returned by get_dfg, following parents from any
\* entry reaches the sentinel -1 in at most entries.len() steps, never
\* leaving 0..entries.len()-1 and never cycling.
C1_ForestProperty ==
    Built =>
        \A e \in Indices(result.entries) :
            ReachesSentinel(result.parents, e, Len(result.entries))

\* C5: in every returned MiniDFG, no operand has a colour above the colour
\* of the entry that consumes it.
C5_ColorMonotonicity ==
    Built =>
        \A e \in Indices(result.entries) :
            \A o \in Range(At(result.entries, e).operands) :
                At(result.entries, o).color <= At(result.entries, e).color

\* An entry built after a side effect consumes a value built before it:
\* the operand's colour is defined and strictly smaller.
C5_Witness ==
    /\ Built
    /\ \E e \in Indices(result.entries) :
          \E o \in Range(At(result.entries, e).operands) :
              /\ At(result.entries, o).color >= 1
              /\ At(result.entries, o).color < At(result.entries, e).color

IsBinaryEntry(entry) ==
    /\ Len(entry.operator) = 3
    /\ entry.operator[1] = "IndexAtCode"
    /\ entry.operator[3] = 2

\* C6: the two operands popped for a binary instruction are different
\* entries whatever the symbolic stack holds, so assert_ne! never fires and
\* every binary entry has two different operand indices.
C6_Distinctness ==
    /\ pc # "panic"
    /\ InLoop("Binary") =>
          LET left == pop_operand(Builder, idx, FALSE)
          IN  left.idx # pop_operand(left.b, idx, FALSE).idx
    /\ \A e \in Indices(dfg_map) :
          IsBinaryEntry(At(dfg_map, e)) =>
              /\ Len(At(dfg_map, e).operands) = 2
              /\ At(dfg_map, e).operands[1] # At(dfg_map, e).operands[2]

IsUndef(entry) == entry.operator = <<"Undef">>

\* Binary entries built from two synthesized Undef leaves, from one Undef
\* and one stack value, and from two stack values.
C6_Witness ==
    /\ Built
    /\ \E e \in Indices(result.entries) :
          LET entry == At(result.entries, e)
          IN  /\ IsBinaryEntry(entry)
              /\ IsUndef(At(result.entries, entry.operands[1]))
              /\ IsUndef(At(result.entries, entry.operands[2]))
              /\ entry.operands[1] # entry.operands[2]

\* The entries reachable from root through operands links, root included.
RECURSIVE Subtree(_, _)
Subtree(entries, S) ==
    LET T == S \cup UNION {Range(At(entries, e).operands) : e \in S}
    IN  IF T = S THEN S ELSE Subtree(entries, T)

\* C7: for every returned MiniDFG and every entry index root,
\* is_subtree_consistent(root) is true iff every entry reachable from root
\* through operands links, root included, has root's colour.
C7_ConsistencyCorrectness ==
    Built =>
        \A root \in Indices(result.entries) :
            is_subtree_consistent(result.entries, root)
                <=> \A e \in Subtree(result.entries, {root}) :
                        At(result.entries, e).color = At(result.entries, root).color

\* A root whose operand has its colour and whose operand's operand has
\* not: the mismatch lies two links below the root.
C7_Witness ==
    /\ Built
    /\ \E root \in Indices(result.entries) :
          \E o \in Range(At(result.entries, root).operands) :
              \E oo \in Range(At(result.entries, o).operands) :
                  /\ At(result.entries, o).color = At(result.entries, root).color
                  /\ At(result.entries, oo).color # At(result.entries, root).color
                  /\ ~is_subtree_consistent(result.entries, root)

\* A call whose callee's function type has more than one return value.
IsMultiReturnCall(operator) ==
    /\ operator.op = "Call"
    /\ Len(At(FuncTypes, operator.arg).returns) >= 2

\* The instruction kinds get_dfg models: constants, local/global
\* get/set/tee, i32/i64 loads and stores, eqz, the listed binary ops, drop,
\* i32.wrap_i64, call, and nop/else/end/br/br_if/br_table/return/unreachable.
ModeledKinds ==
    {"I32Const", "I64Const", "LocalGet", "LocalSet", "LocalTee", "GlobalGet",
     "GlobalSet", "I32Load", "I64Load", "I32Store", "I64Store", "I32Eqz",
     "I64Eqz", "Drop", "I32WrapI64", "Call",
     "Nop", "Else", "End", "Br", "BrIf", "BrTable", "Return", "Unreachable"}
    \cup I32BinaryKinds \cup I64BinaryKinds

IsModeled(operator) == operator.op \in ModeledKinds

\* C8: get_dfg returns None whenever the block contains a call to a callee
\* with more than one return value, wherever the call sits and whatever
\* precedes it.
C8_MultiReturnCallIsNone ==
    (Returned /\ \E k \in BlockIndices : IsMultiReturnCall(At(operators, k)))
        => result.tag = "None"

\* None returned at a multi-return call that follows two modeled
\* instructions for which entries had already been built.
C8_Witness ==
    /\ pc = "done"
    /\ result.tag = "None"
    /\ idx = basicblock.start + 2
    /\ IsMultiReturnCall(At(operators, idx))
    /\ \A k \in basicblock.start .. (idx - 1) :
          /\ IsModeled(At(operators, k))
          /\ ~IsMultiReturnCall(At(operators, k))
    /\ Len(dfg_map) >= 2

\* C9: get_dfg returns None whenever the block contains an instruction
\* that is not one of the modeled kinds, at whatever position.
C9_UnmodeledInstructionIsNone ==
    (Returned /\ \E k \in BlockIndices : ~IsModeled(At(operators, k)))
        => result.tag = "None"

\* None returned at a non-modeled instruction in the last position of a
\* three-instruction block, after entries had been built.
C9_Witness ==
    /\ pc = "done"
    /\ result.tag = "None"
    /\ idx = basicblock.start + 2
    /\ ~IsModeled(At(operators, idx))
    /\ \A k \in basicblock.start .. (idx - 1) :
          /\ IsModeled(At(operators, k))
          /\ ~IsMultiReturnCall(At(operators, k))
    /\ Len(dfg_map) >= 2

\* C10: get_dfg returns Some(MiniDFG) for every block made only of modeled
\* instructions whose calls return at most one value; finding the symbolic
\* stack empty never makes it fail or panic.
C10_ModeledBlockIsSome ==
    (Returned /\ \A k \in BlockIndices :
                    /\ IsModeled(At(operators, k))
                    /\ ~IsMultiReturnCall(At(operators, k)))
        => Built

\* A MiniDFG returned for a block in which a two-parameter call and
\* another instruction each found the symbolic stack empty.
C10_Witness ==
    /\ Built
    /\ Cardinality({e \in Indices(result.entries) :
                       IsUndef(At(result.entries, e))}) >= 3
    /\ \E e \in Indices(result.entries) :
          /\ At(result.entries, e).operator[1] = "Call"
          /\ \A o \in Range(At(result.entries, e).operands) :
                IsUndef(At(result.entries, o))
          /\ Len(At(result.entries, e).operands) = 2

\* C17: the block local.get 0; local.get 0; i32.add yields a MiniDFG with
\* exactly 3 entries, the add entry (entry 2) has operands [0, 1], all
\* three entries have colour 1, and parents = [2, 2, -1].
C17_Scenario == <<Op("LocalGet", 0), Op("LocalGet", 0), Op("I32Add", 0)>>

C17_AddScenario ==
    (Returned /\ operators = C17_Scenario) =>
        /\ Built
        /\ Len(result.entries) = 3
        /\ IsBinaryEntry(At(result.entries, 2))
        /\ At(result.entries, 2).operands = <<0, 1>>
        /\ \A e \in 0 .. 2 : At(result.entries, e).color = 1
        /\ result.parents = <<2, 2, -1>>

\* The scenario block was delimited as 0..3 and a MiniDFG was returned.
C17_Witness ==
    /\ Built
    /\ operators = C17_Scenario
    /\ basicblock.start = 0
    /\ basicblock.end = 3

\* C18: a block that contains only i32.store yields an Undef leaf of
\* colour 0 that is an operand of the store entry; the store entry is a
\* root with empty return type and is not left on the symbolic stack.
C18_Scenario == <<Op("I32Store", 0)>>

C18_StoreScenario ==
    (Returned /\ operators = C18_Scenario) =>
        /\ Built
        /\ \E u, st \in Indices(result.entries) :
              /\ IsUndef(At(result.entries, u))
              /\ At(result.entries, u).color = 0
              /\ At(result.entries, u).operands = << >>
              /\ At(result.entries, st).operator_idx = 0
              /\ ~IsUndef(At(result.entries, st))
              /\ u \in Range(At(result.entries, st).operands)
              /\ At(result.parents, st) = -1
              /\ At(result.entries, st).return_type = "Empty"
              /\ st \notin Range(stack)

\* The store-only block was built.
C18_Witness ==
    /\ Built
    /\ operators = C18_Scenario
    /\ Len(result.entries) = 2

\* C19: in every returned MiniDFG, for every entry e and every operand o of
\* e, parents[o] is e.entry_idx, the index of the consumer entry.
C19_OperandParentAgreement ==
    Built =>
        \A e \in Indices(result.entries) :
            \A o \in Range(At(result.entries, e).operands) :
                At(result.parents, o) = At(result.entries, e).entry_idx

\* The instructions after which the colour is incremented.
SideEffectKinds ==
    {"LocalSet", "LocalTee", "GlobalSet", "I32Store", "I64Store", "Call"}

\* The number of side-effecting instructions of the block before index k.
SideEffectsBefore(k) ==
    Cardinality({j \in basicblock.start .. (k - 1) :
                    At(operators, j).op \in SideEffectKinds})

\* C20: the running colour starts at 1 and grows by exactly 1 after each
\* local.set, local.tee, global.set, store and call; the colour of a
\* non-Undef entry is 1 plus the number of such instructions before its
\* instruction in the block (the writer itself carries the old colour).
C20_SideEffectColoring ==
    pc \in {"dfg", "done"} =>
        /\ color = 1 + SideEffectsBefore(idx)
        /\ \A e \in Indices(dfg_map) :
              ~IsUndef(At(dfg_map, e)) =>
                  At(dfg_map, e).color
                      = 1 + SideEffectsBefore(At(dfg_map, e).operator_idx)

\* Two writers followed by a third instruction: colours 1, 2 and 3, the
\* writers carrying the colour they found.
C20_Witness ==
    /\ Built
    /\ color = 3
    /\ \E a, b, c \in Indices(result.entries) :
          /\ At(result.entries, a).color = 1
          /\ At(operators, At(result.entries, a).operator_idx).op \in SideEffectKinds
          /\ ~IsUndef(At(result.entries, a))
          /\ At(result.entries, b).color = 2
          /\ At(operators, At(result.entries, b).operator_idx).op \in SideEffectKinds
          /\ At(result.entries, c).color = 3


\* The instructions after which the colour is left as it is.
NeutralKinds ==
    MarkerKinds \cup I32BinaryKinds \cup I64BinaryKinds
    \cup {"Drop", "I32Load", "I64Load", "I32Eqz", "I64Eqz", "I32WrapI64",
          "I32Const", "I64Const", "LocalGet", "GlobalGet"}

\* The entries made for instruction k, the Undef leaves made on its behalf
\* left out.
EntriesOf(entries, k) ==
    {e \in Indices(entries) :
        /\ At(entries, e).operator_idx = k
        /\ ~IsUndef(At(entries, e))}

\* C21: processing drop, a load, eqz, a binary op, the conversion, a
\* constant, local.get, global.get or a control marker leaves the running
\* colour unchanged: the entry made for the next instruction has the colour
\* of the entry made for this one.
C21_NeutralKindsKeepColor ==
    [][(/\ pc = "dfg"
        /\ pc' = "dfg"
        /\ idx' = idx + 1
        /\ At(operators, idx).op \in NeutralKinds)
          => /\ color' = color
             /\ At(dfg_map', Len(dfg_map') - 1).color = color
             /\ \A k \in basicblock.start .. (idx - 1) :
                   At(operators, k).op \in NeutralKinds =>
                       \A a \in EntriesOf(dfg_map', k) :
                           \A b \in EntriesOf(dfg_map', k + 1) :
                               At(dfg_map', a).color = At(dfg_map', b).color]_vars

\* After a side effect, a drop and the instruction that follows it got the
\* same colour.
C21_Witness ==
    /\ Built
    /\ \E a, b \in Indices(result.entries) :
          /\ At(result.entries, a).operator = <<"Drop">>
          /\ ~IsUndef(At(result.entries, b))
          /\ At(result.entries, b).operator_idx
                = At(result.entries, a).operator_idx + 1
          /\ At(result.entries, a).color = 2
          /\ At(result.entries, b).color = 2

\* C22: colour 0 is used only for Undef: in every returned MiniDFG an
\* entry has colour 0 iff its operator is Undef, every Undef entry has no
\* operands, and every other entry has a colour of at least 1.
C22_ColorZeroIsUndef ==
    Built =>
        \A e \in Indices(result.entries) :
            LET entry == At(result.entries, e)
            IN  /\ entry.color = 0 <=> IsUndef(entry)
                /\ IsUndef(entry) => entry.operands = << >>
                /\ ~IsUndef(entry) => entry.color >= 1

\* An Undef leaf of colour 0 consumed by the first entry of the block, of
\* colour 1, and another consumed by an entry made after a side effect.
C22_Witness ==
    /\ Built
    /\ \E u, v, e, f \in Indices(result.entries) :
          /\ u # v
          /\ IsUndef(At(result.entries, u))
          /\ IsUndef(At(result.entries, v))
          /\ At(result.entries, u).color = 0
          /\ At(result.entries, v).color = 0
          /\ u \in Range(At(result.entries, e).operands)
          /\ v \in Range(At(result.entries, f).operands)
          /\ At(result.entries, e).color = 1
          /\ At(result.entries, f).color = 2

\* What C23 says of pop_operand called on the builder as it stands.
PopSemantics(insertindfg) ==
    LET r == pop_operand(Builder, idx, insertindfg)
        n == Len(dfg_map)
    IN  IF stack # << >>
        THEN /\ r.idx = stack[Len(stack)]
             /\ r.b.stack = SubSeq(stack, 1, Len(stack) - 1)
             /\ r.b.dfg_map = dfg_map
             /\ r.b.parents = parents
        ELSE /\ Len(r.b.dfg_map) = n + 1
             /\ SubSeq(r.b.dfg_map, 1, n) = dfg_map
             /\ IsUndef(At(r.b.dfg_map, n))
             /\ At(r.b.dfg_map, n).color = 0
             /\ At(r.b.dfg_map, n).operands = << >>
             /\ r.b.parents = Append(parents, -1)
             /\ r.idx = n
             /\ r.b.stack = << >>

\* C23: pop_operand on a non-empty symbolic stack removes and returns the
\* top index and appends no entry; on an empty stack it appends exactly one
\* entry (Undef, colour 0, no operands, sentinel parent), returns its index
\* and leaves the stack empty.
C23_PopSemantics ==
    pc = "dfg" => PopSemantics(TRUE) /\ PopSemantics(FALSE)

\* A block in which one pop found the stack empty and a later one found a
\* value on it, the stack being empty again at the end.
C23_Witness ==
    /\ Built
    /\ stack = << >>
    /\ \E u, e, f \in Indices(result.entries) :
          /\ IsUndef(At(result.entries, u))
          /\ At(result.entries, e).operands = <<u>>
          /\ At(result.entries, f).operands = <<e>>

IsCallEntry(entry) == entry.operator[1] = "Call"

\* The number of operands the instruction at idx consumes: two for a
\* binary operator, the callee's parameter count for a call.
OperandCount(operator) ==
    IF operator.op = "Call"
    THEN Len(get_functype_idx(operator.arg).params)
    ELSE 2

StrictlyIncreasing(v) == \A i, j \in 1 .. Len(v) : i < j => v[i] < v[j]

\* C24: operand order is evaluation order: when a binary operator or a call
\* takes all its operands from the symbolic stack, the operands of its
\* entry are the top of the stack read from the value pushed first to the
\* value on top, so their entry indices are strictly increasing.
C24_OperandsInEvaluationOrder ==
    [][(/\ pc = "dfg"
        /\ pc' = "dfg"
        /\ idx' = idx + 1
        /\ Arm(At(operators, idx)) \in {"Binary", "Call"}
        /\ Len(stack) >= OperandCount(At(operators, idx)))
          => LET n     == OperandCount(At(operators, idx))
                 entry == At(dfg_map', Len(dfg_map') - 1)
             IN  /\ entry.operands = SubSeq(stack, Len(stack) - n + 1, Len(stack))
                 /\ StrictlyIncreasing(entry.operands)]_vars

\* A two-parameter call whose arguments are the two constants pushed just
\* before it.
C24_Witness ==
    /\ Built
    /\ Len(result.entries) = 3
    /\ IsCallEntry(At(result.entries, 2))
    /\ At(result.entries, 2).operands = <<0, 1>>
    /\ At(result.entries, 0).operator[1] = "I32"
    /\ At(result.entries, 1).operator[1] = "LocalGet"

Min(a, b) == IF a < b THEN a ELSE b

\* C25: for a call whose callee has n parameters and at most one result,
\* get_dfg pops exactly n operands (an Undef leaf standing in for each one
\* the stack lacks), creates one call entry with n operands and
\* params_count n, sets the parent of every operand to the call entry,
\* pushes the call entry iff the callee has a result (the entry is
\* empty-typed otherwise), and then increments the colour.
C25_CallStep ==
    [][(/\ pc = "dfg"
        /\ idx < basicblock.end
        /\ At(operators, idx).op = "Call"
        /\ Len(get_functype_idx(At(operators, idx).arg).returns) <= 1)
          => LET tpe   == get_functype_idx(At(operators, idx).arg)
                 n     == Len(tpe.params)
                 k     == Min(n, Len(stack))
                 call  == Len(dfg_map') - 1
                 entry == At(dfg_map', call)
             IN  /\ pc' = "dfg"
                 /\ idx' = idx + 1
                 /\ Len(dfg_map') = Len(dfg_map) + (n - k) + 1
                 /\ \A u \in Len(dfg_map) .. (call - 1) : IsUndef(At(dfg_map', u))
                 /\ entry.operator = <<"Call", At(operators, idx).arg, n>>
                 /\ Len(entry.operands) = n
                 /\ \A o \in Range(entry.operands) : At(parents', o) = call
                 /\ entry.return_type = "Empty" <=> Len(tpe.returns) = 0
                 /\ stack' = SubSeq(stack, 1, Len(stack) - k)
                             \o (IF Len(tpe.returns) = 1 THEN <<call>> ELSE << >>)
                 /\ color' = color + 1]_vars

\* A call with two parameters and a result, left on the symbolic stack,
\* followed by a call without parameters and result, not pushed and one
\* colour up.
C25_Witness ==
    /\ Built
    /\ \E c, d \in Indices(result.entries) :
          /\ At(result.entries, c).operator = <<"Call", 1, 2>>
          /\ Len(At(result.entries, c).operands) = 2
          /\ stack = <<c>>
          /\ At(result.entries, d).operator = <<"Call", 0, 0>>
          /\ At(result.entries, d).return_type = "Empty"
          /\ At(result.entries, d).color = At(result.entries, c).color + 1

\* An entry made for an instruction without data result: a set, a store,
\* a drop, a call without result or a control marker.
IsEmptyTyped(entry) == entry.return_type = "Empty" /\ ~IsUndef(entry)

\* C26: at every step of get_dfg the symbolic stack holds only indices of
\* entries with a non-empty return type; an entry made with an empty return
\* type for a set, a store, a drop, a call without result or a control
\* marker has its index in entries, is never on the stack and is an operand
\* of no entry.
C26_EmptyTypedNeverPushed ==
    /\ \A i \in 1 .. Len(stack) :
          /\ stack[i] \in Indices(dfg_map)
          /\ At(dfg_map, stack[i]).return_type # "Empty"
    /\ \A e \in Indices(dfg_map) :
          IsEmptyTyped(At(dfg_map, e)) =>
              /\ At(dfg_map, e).entry_idx = e
              /\ e \notin Range(stack)
              /\ \A f \in Indices(dfg_map) : e \notin Range(At(dfg_map, f).operands)

\* An empty-typed entry followed by a consumer that found the symbolic
\* stack empty and took an Undef leaf instead.
C26_Witness ==
    /\ Built
    /\ \E e, f \in Indices(result.entries) :
          /\ IsEmptyTyped(At(result.entries, e))
          /\ e < f
          /\ At(result.entries, f).operands # << >>
          /\ \A o \in Range(At(result.entries, f).operands) :
                /\ o > e
                /\ IsUndef(At(result.entries, o))

IsMarkerEntry(entry) ==
    /\ Len(entry.operator) = 3
    /\ entry.operator[1] = "IndexAtCode"
    /\ entry.operator[3] = 0

\* C27: processing nop, else, end, br, br_if, br_table, return or
\* unreachable inside a block appends exactly one entry
\* IndexAtCode(instruction index, 0) with no operands, empty return type and
\* sentinel parent, and leaves the symbolic stack, the colour, the operator
\* map and the existing parent links unchanged; the entry keeps the
\* sentinel parent up to and in the returned MiniDFG.
C27_MarkerStep ==
    [][/\ (/\ pc = "dfg"
           /\ idx < basicblock.end
           /\ At(operators, idx).op \in MarkerKinds)
             => LET n     == Len(dfg_map)
                    entry == At(dfg_map', n)
                IN  /\ pc' = "dfg"
                    /\ idx' = idx + 1
                    /\ Len(dfg_map') = n + 1
                    /\ SubSeq(dfg_map', 1, n) = dfg_map
                    /\ entry.operator = <<"IndexAtCode", idx, 0>>
                    /\ entry.operands = << >>
                    /\ entry.return_type = "Empty"
                    /\ parents' = Append(parents, -1)
                    /\ stack' = stack
                    /\ color' = color
                    /\ operatormap' = operatormap
       /\ \A e \in Indices(dfg_map) :
             IsMarkerEntry(At(dfg_map, e)) =>
                 /\ At(parents', e) = -1
                 /\ result'.tag = "Some" => At(result'.parents, e) = -1]_vars

\* A block that starts at a br and ends with a nop passed while a value is
\* on the symbolic stack: both markers are roots of the MiniDFG, neither
\* has a key in the operator map.
C27_Witness ==
    /\ Built
    /\ Len(operators) = 3
    /\ At(operators, 0).op = "Br"
    /\ At(operators, 2).op = "Nop"
    /\ Len(result.entries) = 3
    /\ IsMarkerEntry(At(result.entries, 0))
    /\ IsMarkerEntry(At(result.entries, 2))
    /\ At(result.parents, 0) = -1
    /\ At(result.parents, 2) = -1
    /\ stack = <<1>>
    /\ DOMAIN result.map = {1}

Consumed(entries, i) ==
    \E e \in Indices(entries) : i \in Range(At(entries, e).operands)

\* C28: roots are exactly the unconsumed entries: in every returned
\* MiniDFG parents[i] is the sentinel -1 iff entry i is in no operands
\* list, and every such root either has an empty return type or is still
\* on the symbolic stack when the block ends.
C28_RootsAreUnconsumed ==
    Built =>
        \A i \in Indices(result.entries) :
            /\ At(result.parents, i) = -1 <=> ~Consumed(result.entries, i)
            /\ At(result.parents, i) = -1 =>
                  \/ At(result.entries, i).return_type = "Empty"
                  \/ i \in Range(stack)

\* A MiniDFG with a consumed value, a root without data result and a root
\* left on the symbolic stack.
C28_Witness ==
    /\ Built
    /\ \E a, b, c \in Indices(result.entries) :
          /\ At(result.parents, a) = b
          /\ a \in Range(At(result.entries, b).operands)
          /\ ~IsUndef(At(result.entries, a))
          /\ At(result.parents, b) = -1
          /\ At(result.entries, b).return_type = "Empty"
          /\ At(result.parents, c) = -1
          /\ c \in Range(stack)

\* The number of values the WebAssembly instruction takes from the stack.
Consumes(operator) ==
    CASE operator.op \in ProducerKinds -> 0
      [] operator.op \in UnaryKinds \cup {"Drop", "LocalSet", "LocalTee", "GlobalSet"} -> 1
      [] operator.op \in I32BinaryKinds \cup I64BinaryKinds \cup StoreKinds -> 2
      [] operator.op = "Call" -> Len(get_functype_idx(operator.arg).params)

\* Whether the WebAssembly instruction leaves a value on the stack.
Produces(operator) ==
    CASE operator.op \in ProducerKinds \cup UnaryKinds \cup {"LocalTee"} -> TRUE
      [] operator.op \in I32BinaryKinds \cup I64BinaryKinds -> TRUE
      [] operator.op \in StoreKinds \cup {"Drop", "LocalSet", "GlobalSet"} -> FALSE
      [] operator.op = "Call" -> Len(get_functype_idx(operator.arg).returns) = 1

ArityKinds ==
    ProducerKinds \cup UnaryKinds \cup I32BinaryKinds \cup I64BinaryKinds
    \cup StoreKinds \cup {"Drop", "LocalSet", "LocalTee", "GlobalSet", "Call"}

C33_Scenario == <<Op("I32Const", 0), Op("I32Const", 0), Op("I32Store", 0)>>

\* C33: each modeled instruction removes from the symbolic stack as many
\* values as the WebAssembly instruction consumes (as many as there are,
\* when the stack holds fewer) and pushes exactly one entry iff the
\* instruction produces a value; after i32.const; i32.const; i32.store the
\* symbolic stack is empty and both constants have the store entry as
\* parent.
C33_StackEffectMatchesArity ==
    [][/\ (/\ pc = "dfg"
           /\ pc' = "dfg"
           /\ idx' = idx + 1
           /\ At(operators, idx).op \in ArityKinds)
             => LET operator == At(operators, idx)
                    k == Min(Consumes(operator), Len(stack))
                IN  stack' = SubSeq(stack, 1, Len(stack) - k)
                             \o (IF Produces(operator)
                                 THEN <<Len(dfg_map') - 1>>
                                 ELSE << >>)
       /\ (operators = C33_Scenario /\ result'.tag = "Some")
             => /\ stack' = << >>
                /\ At(result'.parents, 0) = 2
                /\ At(result'.parents, 1) = 2]_vars

\* C34: operand links point backward: each operand index of an entry is
\* strictly smaller than the entry's entry_idx, entry_idx is the entry's
\* position in entries, and parents is as long as entries after every
\* step; hence the worklist of is_subtree_consistent never visits more
\* entries than there are at or below the root, for every root.
C34_OperandsPointBackward ==
    /\ Len(parents) = Len(dfg_map)
    /\ \A e \in Indices(dfg_map) :
          /\ At(dfg_map, e).entry_idx = e
          /\ \A o \in Range(At(dfg_map, e).operands) :
                o \in 0 .. (At(dfg_map, e).entry_idx - 1)
    /\ Built =>
          /\ Len(result.parents) = Len(result.entries)
          /\ \A root \in Indices(result.entries) :
                Len(ConsistentLoop(result.entries, <<root>>, << >>)) <= root + 1

\* A chain of two operand links below a root: the traversal visits three
\* entries.
C34_Witness ==
    /\ Built
    /\ \E root \in Indices(result.entries) :
          \E o \in Range(At(result.entries, root).operands) :
              /\ At(result.entries, o).operands # << >>
              /\ Len(ConsistentLoop(result.entries, <<root>>, << >>)) >= 3

\* The number of places of the operands lists that hold entry index x.
OperandUses(entries, x) ==
    Cardinality(UNION {{<<e, i>> : i \in {j \in 1 .. Len(At(entries, e).operands) :
                                             At(entries, e).operands[j] = x}} :
                       e \in Indices(entries)})

NoDuplicates(v) == \A i, j \in 1 .. Len(v) : i # j => v[i] # v[j]

\* C35: single consumer: in every built MiniDFG each entry index appears
\* in the operands lists of all entries at most once in total, and at every
\* step each entry index is on the symbolic stack at most once.
C35_SingleConsumer ==
    /\ NoDuplicates(stack)
    /\ Built =>
          \A x \in Indices(result.entries) : OperandUses(result.entries, x) <= 1

\* Two values consumed by one entry while another value stays on the
\* stack.
C35_Witness ==
    /\ Built
    /\ Len(stack) >= 1
    /\ \E e \in Indices(result.entries) :
          LET entry == At(result.entries, e)
          IN  /\ Len(entry.operands) = 2
              /\ ~IsUndef(At(result.entries, entry.operands[1]))
              /\ ~IsUndef(At(result.entries, entry.operands[2]))
              /\ OperandUses(result.entries, entry.operands[1]) = 1

IsLocalTeeEntry(entry) == entry.operator[1] = "LocalTee"

\* C36: side effects only at the root of a consistent subtree: in every
\* built MiniDFG, when is_subtree_consistent(root) is true no entry of the
\* subtree other than root is a call or a local.tee.
C36_SideEffectsOnlyAtRoot ==
    Built =>
        \A root \in Indices(result.entries) :
            is_subtree_consistent(result.entries, root) =>
                \A e \in Subtree(result.entries, {root}) \ {root} :
                    /\ ~IsCallEntry(At(result.entries, e))
                    /\ ~IsLocalTeeEntry(At(result.entries, e))

\* A consistent subtree whose root is a call with two operands taken from
\* the stack.
C36_Witness ==
    /\ Built
    /\ \E root \in Indices(result.entries) :
          /\ is_subtree_consistent(result.entries, root)
          /\ IsCallEntry(At(result.entries, root))
          /\ Len(At(result.entries, root).operands) = 2

\* C37: a subtree that depends on a predecessor block is never consistent:
\* in every built MiniDFG, when a non-Undef root reaches an Undef leaf
\* through operands links, is_subtree_consistent(root) is false.
C37_UndefMakesInconsistent ==
    Built =>
        \A root \in Indices(result.entries) :
            (/\ ~IsUndef(At(result.entries, root))
             /\ \E e \in Subtree(result.entries, {root}) :
                   IsUndef(At(result.entries, e)))
                => ~is_subtree_consistent(result.entries, root)

\* An Undef leaf two operand links below a root, under entries that all
\* carry the same colour.
C37_Witness ==
    /\ Built
    /\ \E root \in Indices(result.entries) :
          \E o \in Range(At(result.entries, root).operands) :
              /\ ~IsUndef(At(result.entries, o))
              /\ At(result.entries, o).color = At(result.entries, root).color
              /\ \E u \in Range(At(result.entries, o).operands) :
                    IsUndef(At(result.entries, u))

\* C39: in every built MiniDFG the keys of map are exactly the instruction
\* indices of the block's non-marker instructions, and for every key k,
\* entries[map[k]] is the non-Undef entry created for instruction k with
\* operator_idx = k, even when an Undef leaf was first registered under k.
C39_OperatorMap ==
    Built =>
        /\ DOMAIN result.map =
              {k \in BlockIndices : At(operators, k).op \notin MarkerKinds}
        /\ \A k \in DOMAIN result.map :
              /\ result.map[k] \in Indices(result.entries)
              /\ ~IsUndef(At(result.entries, result.map[k]))
              /\ At(result.entries, result.map[k]).operator_idx = k

\* A writer on an empty stack, whose Undef leaf was registered under the
\* writer's index first, next to a marker that has an entry and no key.
C39_Witness ==
    /\ Built
    /\ Len(operators) = 2
    /\ basicblock.start = 0
    /\ At(operators, 0).op \in MarkerKinds
    /\ At(operators, 1).op = "LocalSet"
    /\ DOMAIN result.map = {1}
    /\ IsUndef(At(result.entries, 1))
    /\ At(result.entries, 1).operator_idx = 1
    /\ result.map[1] = 2
    /\ IsMarkerEntry(At(result.entries, 0))

OpenerKinds == {"Block", "Loop", "If"}

\* The boundary instructions before the probe.
BoundariesBefore ==
    {k \in 0 .. (operator_index - 1) : IsBoundary(At(operators, k))}

Extracted == pc = "extracted"

\* Root-to-leaf distance (edges) below position p of the output.
RECURSIVE Height(_)
Height(p) ==
    IF At(ex_operands, p) = << >>
    THEN 0
    ELSE 1 + Max({Height(c) : c \in Range(At(ex_operands, p))})

MaxCost == Max({costs[c].cost : c \in DOMAIN costs})

\* C12 as stated: the maximum root-to-leaf distance of the output tree
\* never exceeds max_depth + 1.
C12_DepthBound == Extracted => Height(0) <= max_depth + 1

\* C12, amended: the maximum root-to-leaf distance of the output tree never
\* exceeds max_depth plus the largest cost recorded for a class (the node
\* count of the class's cheapest term); the forced node need not be a leaf.
C12_DepthBoundByCost == Extracted => Height(0) <= max_depth + MaxCost

\* A tree that reaches the amended bound and is deeper than max_depth + 1.
C12_Witness ==
    /\ Extracted
    /\ Height(0) = max_depth + MaxCost
    /\ Height(0) > max_depth + 1

AllCosted == ClassIds(egraph) \subseteq DOMAIN costs

\* Node count of the largest term the walk can still produce for class c
\* met at worklist depth d.
RECURSIVE Size(_, _)
Size(c, d) ==
    IF d >= max_depth
    THEN costs[c].cost
    ELSE Max({1 + SumSeq([i \in 1 .. Len(n.children) |->
                             Size(n.children[i], d + 1)])
              : n \in Range(Nodes(egraph, c))})

Measure(wl) == SumSeq([i \in 1 .. Len(wl) |-> Size(wl[i][3], wl[i][4])])

\* C13: when every class has a recorded cost, extract_random terminates:
\* every iteration of its loop strictly decreases a natural number, the
\* node count the worklist can still produce within max_depth.
C13_WalkTerminates ==
    [][(pc = "walk" /\ pc' = "walk" /\ AllCosted)
         => /\ Measure(ex_worklist') < Measure(ex_worklist)
            /\ Measure(ex_worklist') >= 0]_vars

\* The graph of ?x => (unfold ?x): the class is entered again from its own
\* node before the forced choice ends the walk.
C13_Witness ==
    /\ Extracted
    /\ AllCosted
    /\ egraph.classes = << <<Node("Symbol", << >>), Node("unfold", <<0>>)>> >>
    /\ id_to_node = <<Node("unfold", <<0>>), Node("unfold", <<0>>),
                      Node("Symbol", << >>)>>

\* The places (q, k) of the operand lists that hold position p.
Occurrences(p) ==
    {qk \in UNION {{<<q, k>> : k \in 1 .. Len(At(ex_operands, q))}
                   : q \in Indices(ex_operands)}
       : At(ex_operands, qk[1])[qk[2]] = p}

RECURSIVE ReachableFrom(_)
ReachableFrom(S) ==
    LET more == S \cup UNION {Range(At(ex_operands, p)) \cap Indices(ex_operands)
                              : p \in S}
    IN  IF more = S THEN S ELSE ReachableFrom(more)

\* C14: the output is a tree rooted at position 0: node list and operand
\* lists have the same length, position 0 holds a node of the root class,
\* every other position is in exactly one operand list, and every position
\* is reachable from position 0.
C14_OutputIsTree ==
    Extracted =>
        /\ Len(id_to_node) = Len(ex_operands)
        /\ At(id_to_node, 0) \in Range(Nodes(egraph, eclass))
        /\ \A p \in 1 .. (Len(id_to_node) - 1) : Cardinality(Occurrences(p)) = 1
        /\ ReachableFrom({0}) = Indices(id_to_node)

\* A tree with a binary root and a binary inner node.
C14_Witness ==
    /\ Extracted
    /\ Len(At(ex_operands, 0)) = 2
    /\ \E p \in 1 .. (Len(id_to_node) - 1) : Len(At(ex_operands, p)) = 2

\* C15 as stated: every operand index of position p is a position earlier
\* than or equal to p.
C15_OperandsEarlierOrEqual ==
    Extracted =>
        \A p \in Indices(ex_operands) :
            \A k \in 1 .. Len(At(ex_operands, p)) : At(ex_operands, p)[k] <= p

\* C15, amended: every operand index of position p is a position of the
\* list later than p.
C15_OperandsLater ==
    Extracted =>
        \A p \in Indices(ex_operands) :
            \A k \in 1 .. Len(At(ex_operands, p)) :
                /\ At(ex_operands, p)[k] > p
                /\ At(ex_operands, p)[k] < Len(id_to_node)

\* A node other than the root has an operand.
C15_Witness ==
    /\ Extracted
    /\ \E p \in 1 .. (Len(ex_operands) - 1) : At(ex_operands, p) # << >>

HasEmptyClass == \E id \in ClassIds(egraph) : Nodes(egraph, id) = << >>

\* C16: with a class that has no node, the first pass of find_costs panics:
\* the extractor is never constructed and no tree is produced.
C16_EmptyClassPanics ==
    HasEmptyClass =>
        /\ pc \in {"find_costs", "panic"}
        /\ pc = "find_costs" => costs = EmptyMap
        /\ id_to_node = << >>

C16_Witness == HasEmptyClass /\ pc = "panic"


FindCostsReturned == pc \in {"ready", "walk", "extracted"}

\* The member nodes of class c whose children all have a recorded cost.
CostedNodes(c) ==
    {i \in Indices(Nodes(egraph, c)) :
        \A k \in 1 .. Len(At(Nodes(egraph, c), i).children) :
            At(Nodes(egraph, c), i).children[k] \in DOMAIN costs}

NodeCost(c, i) == cost_function(At(Nodes(egraph, c), i), costs)

\* C29: when find_costs has returned, a class has a recorded (cost, node
\* index) iff one of its member nodes has a recorded cost for every child
\* class; the recorded cost is the minimum, over those nodes, of the cost
\* function applied with the children's recorded costs, and the recorded
\* node index designates a member node of that cost.
C29_CostFixpoint ==
    FindCostsReturned =>
        \A c \in ClassIds(egraph) :
            /\ c \in DOMAIN costs <=> CostedNodes(c) # {}
            /\ c \in DOMAIN costs =>
                  /\ \A i \in CostedNodes(c) : costs[c].cost <= NodeCost(c, i)
                  /\ costs[c].node_idx \in CostedNodes(c)
                  /\ NodeCost(c, costs[c].node_idx) = costs[c].cost

\* A class with two costed nodes of different costs, recorded with the
\* cheaper one.
C29_Witness ==
    /\ pc = "ready"
    /\ \E c \in DOMAIN costs :
          \E i \in CostedNodes(c) : NodeCost(c, i) > costs[c].cost


RECURSIVE TotalCost(_, _)
TotalCost(cs, S) ==
    IF S = {}
    THEN 0
    ELSE LET c == CHOOSE x \in S : TRUE
         IN  cs[c].cost + TotalCost(cs, S \ {c})

Uncosted(cs) == Cardinality(ClassIds(egraph) \ DOMAIN cs)

\* C30: find_costs terminates: every pass after which the loop goes on has
\* given a cost to a class that had none or lowered the sum of the recorded
\* costs, both natural numbers; and a recorded cost is only ever replaced
\* by a strictly smaller one.
C30_FindCostsTerminates ==
    [][pc = "find_costs" =>
          /\ \A c \in DOMAIN costs :
                /\ c \in DOMAIN costs'
                /\ costs'[c] # costs[c] => costs'[c].cost < costs[c].cost
          /\ pc' = "find_costs" =>
                \/ Uncosted(costs') < Uncosted(costs)
                \/ /\ Uncosted(costs') = Uncosted(costs)
                   /\ TotalCost(costs', DOMAIN costs')
                         < TotalCost(costs, DOMAIN costs)]_vars

\* Between two passes: a class is recorded with a cost that the next pass
\* replaces by a smaller one.
C30_Witness ==
    /\ pc = "find_costs"
    /\ \E c \in DOMAIN costs :
          \E i \in CostedNodes(c) : NodeCost(c, i) < costs[c].cost


\* C31: the root node and every node met at a worklist depth below
\* max_depth are the member of their class that the random draw designates,
\* and every member can be drawn; every node met at depth >= max_depth is
\* the node recorded for its class in the cost table, and no draw is made.
C31_DepthSwitch ==
    [][/\ (pc = "ready" /\ pc' = "walk") =>
             /\ Len(rnd') = Len(rnd) + 1
             /\ rnd'[Len(rnd')] \in Indices(Nodes(egraph, eclass))
             /\ id_to_node' = <<At(Nodes(egraph, eclass), rnd'[Len(rnd')])>>
             /\ \A i \in Indices(Nodes(egraph, eclass)) :
                   ENABLED (ExtractRoot /\ rnd' = Append(rnd, i))
       /\ (pc = "walk" /\ pc' = "walk") =>
             LET node   == Popped[3]
                 depth  == Popped[4]
                 chosen == id_to_node'[Len(id_to_node')]
             IN  IF depth >= max_depth
                 THEN /\ chosen = At(Nodes(egraph, node), costs[node].node_idx)
                      /\ rnd' = rnd
                 ELSE /\ Len(rnd') = Len(rnd) + 1
                      /\ rnd'[Len(rnd')] \in Indices(Nodes(egraph, node))
                      /\ chosen = At(Nodes(egraph, node), rnd'[Len(rnd')])
                      /\ \A i \in Indices(Nodes(egraph, node)) :
                            ENABLED (ExtractStep /\ rnd' = Append(rnd, i))]_vars

\* A tree with a drawn node below the root and a forced node below that
\* one.
C31_Witness ==
    /\ Extracted
    /\ max_depth = 1
    /\ Len(rnd) = 2
    /\ Len(id_to_node) = 3


\* C32: for every position p of the output, the number of operand indices
\* recorded for p is the number of children of the e-node at p, and the
\* node at the j-th operand position is a member of the j-th child class of
\* that e-node.
C32_StructuralCompatibility ==
    Extracted =>
        \A p \in Indices(id_to_node) :
            LET node == At(id_to_node, p)
                ops  == At(ex_operands, p)
            IN  /\ Len(ops) = Len(node.children)
                /\ \A j \in 1 .. Len(ops) :
                      At(id_to_node, ops[j])
                          \in Range(Nodes(egraph, node.children[j]))

\* A binary node whose two children are of different classes, each
\* operand position holding a node of the matching class.
C32_Witness ==
    /\ Extracted
    /\ \E p \in Indices(id_to_node) :
          LET node == At(id_to_node, p)
          IN  /\ Len(node.children) = 2
              /\ node.children[1] # node.children[2]
              /\ Range(Nodes(egraph, node.children[1]))
                    \cap Range(Nodes(egraph, node.children[2])) = {}
              /\ Len(At(ex_operands, p)) = 2

====
